---- MODULE Spec2Model ----
(***************************************************************************)
(* Value marshaling of the Snowflake driver (statement.go):                *)
(*   goTypeToSnowflake  native value -> wire type tag                      *)
(*   valueToString      native value -> optional wire string               *)
(*   extractTimestamp   "sec[.frac]" -> (sec, nsec)                        *)
(*   stringToValue      optional wire string + tag -> *dest                *)
(*                                                                         *)
(* A Go string is a sequence of one-character strings, so that scanning,   *)
(* slicing, padding, splitting, formatting and parsing are computed the    *)
(* way the code computes them.  A call ends in one of three ways: it       *)
(* returns without error ("ok"), returns an error ("error"), or panics     *)
(* ("panic").                                                              *)
(***************************************************************************)
EXTENDS Integers, Sequences, FiniteSets, TLC

\* Longest wire string enumerated exhaustively over Alphabet.
MaxLen == 3

\* Largest magnitude of the integers bound as parameters.
MaxInt == 12

(***************************************************************************)
(* Characters and strings                                                  *)
(***************************************************************************)
Alphabet == {"0", "1", "5", "-", ".", " ", "a"}

DigitChars == <<"0", "1", "2", "3", "4", "5", "6", "7", "8", "9">>

IsDigit(c) == \E i \in 1..10 : DigitChars[i] = c

DigitVal(c) == (CHOOSE i \in 1..10 : DigitChars[i] = c) - 1

\* strings.Repeat(c, count) for count >= 0 (a negative count panics; the
\* callers test for it before they use the result).
RECURSIVE Repeat(_, _)
Repeat(c, count) == IF count <= 0 THEN <<>> ELSE <<c>> \o Repeat(c, count - 1)

\* Go slice expression s[lo:hi] with 0-based bounds.
Slice(s, lo, hi) == SubSeq(s, lo + 1, hi)

\* strings.Split(s, " "): the fields between single spaces; count(" ") + 1
\* fields, empty ones included.
RECURSIVE SplitFrom(_, _, _)
SplitFrom(s, start, i) ==
    IF i >= Len(s) THEN <<Slice(s, start, Len(s))>>
    ELSE IF s[i + 1] = " "
         THEN <<Slice(s, start, i)>> \o SplitFrom(s, i + 1, i + 1)
         ELSE SplitFrom(s, start, i + 1)

Split(s) == SplitFrom(s, 0, 0)

(***************************************************************************)
(* strconv                                                                 *)
(***************************************************************************)
\* 1<<63, the cutoff of a 64-bit ParseInt, as decimal digits.
Cutoff63 == <<"9", "2", "2", "3", "3", "7", "2", "0", "3", "6",
              "8", "5", "4", "7", "7", "5", "8", "0", "8">>

RECURSIVE StripZeros(_)
StripZeros(ds) ==
    IF Len(ds) > 1 /\ ds[1] = "0" THEN StripZeros(Tail(ds)) ELSE ds

\* a < b for digit strings of the same length.
RECURSIVE DigitsLess(_, _)
DigitsLess(a, b) ==
    IF a = <<>> THEN FALSE
    ELSE IF a[1] # b[1] THEN DigitVal(a[1]) < DigitVal(b[1])
    ELSE DigitsLess(Tail(a), Tail(b))

\* The number a digit string denotes.
RECURSIVE DecValue(_)
DecValue(ds) ==
    IF ds = <<>> THEN 0
    ELSE DecValue(SubSeq(ds, 1, Len(ds) - 1)) * 10 + DigitVal(ds[Len(ds)])

ParseOk(n) == [ok |-> TRUE, v |-> n, err |-> "none"]
ParseFail(why) == [ok |-> FALSE, v |-> 0, err |-> why]

\* strconv.ParseInt(s, 10, 64): optional sign, then one or more decimal
\* digits; ErrSyntax otherwise, ErrRange beyond the int64 range.
ParseInt(s) ==
    LET neg == Len(s) > 0 /\ s[1] = "-"
        signed == Len(s) > 0 /\ s[1] \in {"+", "-"}
        body == IF signed THEN Tail(s) ELSE s
        ds == StripZeros(body)
        tooBig == \/ Len(ds) > Len(Cutoff63)
                  \/ /\ Len(ds) = Len(Cutoff63)
                     /\ IF neg THEN DigitsLess(Cutoff63, ds)
                               ELSE ~DigitsLess(ds, Cutoff63)
    IN  IF body = <<>> \/ \E i \in 1..Len(body) : ~IsDigit(body[i])
        THEN ParseFail("syntax")
        ELSE IF tooBig THEN ParseFail("range")
        ELSE ParseOk(IF neg THEN -DecValue(ds) ELSE DecValue(ds))

\* The decimal digits of n >= 0, most significant first.
RECURSIVE FormatUint(_)
FormatUint(n) ==
    IF n < 10 THEN <<DigitChars[n + 1]>>
    ELSE FormatUint(n \div 10) \o <<DigitChars[(n % 10) + 1]>>

\* strconv.FormatInt(n, 10)
FormatInt_NoSign(n) == FormatUint(IF n < 0 THEN -n ELSE n)

FormatInt(n) == IF n < 0 THEN <<"-">> \o FormatUint(-n) ELSE FormatUint(n)

\* strconv.FormatBool
FormatBool(b) == IF b THEN <<"t", "r", "u", "e">> ELSE <<"f", "a", "l", "s", "e">>

(***************************************************************************)
(* Go values                                                               *)
(*                                                                         *)
(* A driver.Value held in *dest.  A time.Time is the instant               *)
(* ref + sec seconds + nsec nanoseconds, 0 <= nsec < 10^9, shown in the    *)
(* zone loc; ref is the Unix epoch ("unix") or the zero Time ("zero",      *)
(* January 1 of year 1 UTC).                                               *)
(***************************************************************************)
NilValue == [kind |-> "nil"]

TextValue(s) == [kind |-> "string", s |-> s]

IntValue(n) == [kind |-> "int64", n |-> n]

UTC == [name |-> "UTC", offset |-> 0]

\* time.Local at an instant where the process zone is offset seconds east.
Local(offset) == [name |-> "Local", offset |-> offset]

TimeValue(ref, sec, nsec, loc) ==
    [kind |-> "time", ref |-> ref, sec |-> sec, nsec |-> nsec, loc |-> loc]

NanosPerSecond == 1000000000

\* time.Unix(sec, nsec): nsec outside [0, 10^9) is carried into sec.
timeUnix(sec, nsec, loc) ==
    TimeValue("unix", sec + (nsec \div NanosPerSecond), nsec % NanosPerSecond, loc)

\* time.Duration(sec*1e9 + nsec), kept as whole seconds and the remaining
\* nanoseconds: the value is s * 10^9 + ns with 0 <= ns < 10^9.
Duration(sec, nsec) ==
    [s |-> sec + (nsec \div NanosPerSecond), ns |-> nsec % NanosPerSecond]

\* Time.Add(d)
timeAdd(t, d) ==
    [t EXCEPT !.sec = t.sec + d.s + ((t.nsec + d.ns) \div NanosPerSecond),
              !.nsec = (t.nsec + d.ns) % NanosPerSecond]

\* time.Time{}
ZeroTime == TimeValue("zero", 0, 0, UTC)

\* sfutil.LocationWithOffset(minutes): the fixed zone minutes east of UTC.
LocationWithOffset(minutes) == [name |-> "fixed", offset |-> minutes * 60]

(***************************************************************************)
(* Errors and outcomes                                                     *)
(***************************************************************************)
NoError == [kind |-> "none"]

\* *strconv.NumError
NumError(why) == [kind |-> "NumError", why |-> why]

InvalidTzPrefix == <<"i", "n", "v", "a", "l", "i", "d", " ", "T", "I", "M", "E", "S", "T", "A", "M", "P", "_", "T", "Z", " ", "d", "a", "t", "a", ":", " ">>

\* &SnowflakeError{Number: ErrInvalidTimestampTz, Message: Sprintf(...)}
InvalidTimestampTz(raw) ==
    [kind |-> "SnowflakeError", Number |-> "ErrInvalidTimestampTz",
     Message |-> InvalidTzPrefix \o raw]

\* fmt.Errorf("Unexpected type is given: %v", kind)
UnexpectedType(k) ==
    [kind |-> "errorString", text |-> "Unexpected type is given: ", reflectKind |-> k]

Panic(msg) == [kind |-> "panic", msg |-> msg]

\* (sec, nsec, err) of extractTimestamp
TsOk(sec, nsec) == [status |-> "ok", sec |-> sec, nsec |-> nsec, err |-> NoError]
TsErr(e) == [status |-> "error", sec |-> 0, nsec |-> 0, err |-> e]
TsPanic(msg) == [status |-> "panic", sec |-> 0, nsec |-> 0, err |-> Panic(msg)]

\* The error returned by stringToValue and the content of *dest afterwards.
DecOk(d) == [status |-> "ok", err |-> NoError, dest |-> d]
DecErr(e, d) == [status |-> "error", err |-> e, dest |-> d]
DecPanic(msg, d) == [status |-> "panic", err |-> Panic(msg), dest |-> d]

\* An optional string (*string).
NoString == [present |-> FALSE, s |-> <<>>]
Some(s) == [present |-> TRUE, s |-> s]

(***************************************************************************)
(* extractTimestamp                                                        *)
(***************************************************************************)
\* Number of fraction digits the code pads to.
NanoDigits == 9

\* The loop "for i = 0; i < len(s); i++ { if s[i] == '.' {...; break} }":
\* the index of the first '.', or len(s).
RECURSIVE ScanDot(_, _)
ScanDot(s, i) ==
    IF i < Len(s) /\ s[i + 1] # "." THEN ScanDot(s, i + 1) ELSE i

extractTimestamp_Swapped(srcValue) ==
    LET i == ScanDot(srcValue, 0) IN
    IF i = Len(srcValue)
    THEN LET sec == ParseInt(srcValue) IN
         IF ~sec.ok THEN TsErr(NumError(sec.err)) ELSE TsOk(sec.v, 0)
    ELSE LET sec == ParseInt(Slice(srcValue, 0, i))
             s == Slice(srcValue, i + 1, Len(srcValue))
         IN  IF ~sec.ok THEN TsErr(NumError(sec.err))
             ELSE IF NanoDigits - Len(s) < 0
             THEN TsPanic("strings: negative Repeat count")
             ELSE LET nsec == ParseInt(s \o Repeat("0", NanoDigits - Len(s))) IN
                  IF ~nsec.ok THEN TsErr(NumError(nsec.err))
                  ELSE TsOk(nsec.v, sec.v)

extractTimestamp(srcValue) ==
    LET i == ScanDot(srcValue, 0) IN
    IF i = Len(srcValue)
    THEN \* no fraction
         LET sec == ParseInt(srcValue) IN
         IF ~sec.ok THEN TsErr(NumError(sec.err)) ELSE TsOk(sec.v, 0)
    ELSE LET sec == ParseInt(Slice(srcValue, 0, i))
             s == Slice(srcValue, i + 1, Len(srcValue))
         IN  IF ~sec.ok THEN TsErr(NumError(sec.err))
             ELSE IF NanoDigits - Len(s) < 0
             THEN TsPanic("strings: negative Repeat count")
             ELSE LET nsec == ParseInt(s \o Repeat("0", NanoDigits - Len(s))) IN
                  IF ~nsec.ok THEN TsErr(NumError(nsec.err))
                  ELSE TsOk(sec.v, nsec.v)

(***************************************************************************)
(* stringToValue                                                           *)
(***************************************************************************)
SecondsPerDay == 86400

\* The bias of the zone offset of a timestamp_tz value, in minutes.
TzBias == 1440

\* case "date"
DateBranch(dest, s) ==
    LET v == ParseInt(s) IN
    IF ~v.ok THEN DecErr(NumError(v.err), dest)
    ELSE DecOk(timeUnix(v.v * SecondsPerDay, 0, UTC))

TimeBranch_NoPad(dest, srcValue) ==
    LET i == ScanDot(srcValue, 0) IN
    IF i = Len(srcValue)
    THEN LET sec == ParseInt(srcValue) IN
         IF ~sec.ok THEN DecErr(NumError(sec.err), dest)
         ELSE DecOk(timeAdd(ZeroTime, Duration(sec.v, 0)))
    ELSE LET sec == ParseInt(Slice(srcValue, 0, i))
             s == Slice(srcValue, i + 1, Len(srcValue))
         IN  IF ~sec.ok THEN DecErr(NumError(sec.err), dest)
             ELSE IF NanoDigits - Len(s) < 0
             THEN DecPanic("strings: negative Repeat count", dest)
             ELSE LET nsec == ParseInt(s) IN
                  IF ~nsec.ok THEN DecErr(NumError(nsec.err), dest)
                  ELSE DecOk(timeAdd(ZeroTime, Duration(sec.v, nsec.v)))

\* case "time": the code of extractTimestamp, written out a second time.
TimeBranch(dest, srcValue) ==
    LET i == ScanDot(srcValue, 0) IN
    IF i = Len(srcValue)
    THEN \* no fraction
         LET sec == ParseInt(srcValue) IN
         IF ~sec.ok THEN DecErr(NumError(sec.err), dest)
         ELSE DecOk(timeAdd(ZeroTime, Duration(sec.v, 0)))
    ELSE LET sec == ParseInt(Slice(srcValue, 0, i))
             s == Slice(srcValue, i + 1, Len(srcValue))
         IN  IF ~sec.ok THEN DecErr(NumError(sec.err), dest)
             ELSE IF NanoDigits - Len(s) < 0
             THEN DecPanic("strings: negative Repeat count", dest)
             ELSE LET nsec == ParseInt(s \o Repeat("0", NanoDigits - Len(s))) IN
                  IF ~nsec.ok THEN DecErr(NumError(nsec.err), dest)
                  ELSE DecOk(timeAdd(ZeroTime, Duration(sec.v, nsec.v)))

\* case "timestamp_ntz"
TimestampNtzBranch(dest, s) ==
    LET ts == extractTimestamp(s) IN
    IF ts.status = "panic" THEN DecPanic(ts.err.msg, dest)
    ELSE IF ts.status = "error" THEN DecErr(ts.err, dest)
    ELSE DecOk(timeUnix(ts.sec, ts.nsec, UTC))

\* case "timestamp_ltz"; zoneOffset is what tt.Zone() reports for the
\* process zone at the decoded instant, in seconds.
TimestampLtzBranch(dest, s, zoneOffset) ==
    LET ts == extractTimestamp(s) IN
    IF ts.status = "panic" THEN DecPanic(ts.err.msg, dest)
    ELSE IF ts.status = "error" THEN DecErr(ts.err, dest)
    ELSE DecOk(timeAdd(timeUnix(ts.sec, ts.nsec, Local(zoneOffset)),
                       Duration(-zoneOffset, 0)))

TimestampTzBranch_NoBias(dest, s) ==
    LET tm == Split(s) IN
    IF Len(tm) # 2 THEN DecErr(InvalidTimestampTz(s), dest)
    ELSE LET ts == extractTimestamp(tm[1])
             offset == ParseInt(tm[2])
         IN  IF ts.status = "panic" THEN DecPanic(ts.err.msg, dest)
             ELSE IF ts.status = "error" THEN DecErr(ts.err, dest)
             ELSE IF ~offset.ok THEN DecErr(InvalidTimestampTz(s), dest)
             ELSE LET loc == LocationWithOffset(offset.v)
                      tt == timeUnix(ts.sec, ts.nsec, Local(0))
                  IN  DecOk([tt EXCEPT !.loc = loc])

TimestampTzBranch_OffsetFirst(dest, s) ==
    LET tm == Split(s) IN
    IF Len(tm) # 2 THEN DecErr(InvalidTimestampTz(s), dest)
    ELSE LET ts == extractTimestamp(tm[1])
             offset == ParseInt(tm[2])
         IN  IF ~offset.ok THEN DecErr(InvalidTimestampTz(s), dest)
             ELSE IF ts.status = "panic" THEN DecPanic(ts.err.msg, dest)
             ELSE IF ts.status = "error" THEN DecErr(ts.err, dest)
             ELSE LET loc == LocationWithOffset(offset.v - TzBias)
                      tt == timeUnix(ts.sec, ts.nsec, Local(0))
                  IN  DecOk([tt EXCEPT !.loc = loc])

\* case "timestamp_tz": "<epoch> <offset + 1440>".  tt.In(loc) keeps the
\* instant and replaces the zone.
TimestampTzBranch(dest, s) ==
    LET tm == Split(s) IN
    IF Len(tm) # 2 THEN DecErr(InvalidTimestampTz(s), dest)
    ELSE LET ts == extractTimestamp(tm[1])
             offset == ParseInt(tm[2])
         IN  IF ts.status = "panic" THEN DecPanic(ts.err.msg, dest)
             ELSE IF ts.status = "error" THEN DecErr(ts.err, dest)
             ELSE IF ~offset.ok THEN DecErr(InvalidTimestampTz(s), dest)
             ELSE LET loc == LocationWithOffset(offset.v - TzBias)
                      tt == timeUnix(ts.sec, ts.nsec, Local(0))
                  IN  DecOk([tt EXCEPT !.loc = loc])

stringToValue_FixedParsed(dest, type, srcValue, zoneOffset) ==
    IF ~srcValue.present THEN DecOk(dest)
    ELSE CASE type = "text" -> DecOk(TextValue(srcValue.s))
           [] type = "date" -> DateBranch(dest, srcValue.s)
           [] type = "time" -> TimeBranch(dest, srcValue.s)
           [] type = "timestamp_ntz" -> TimestampNtzBranch(dest, srcValue.s)
           [] type = "timestamp_ltz" ->
                  TimestampLtzBranch(dest, srcValue.s, zoneOffset)
           [] type = "timestamp_tz" -> TimestampTzBranch(dest, srcValue.s)
           [] type = "fixed" ->
                  LET v == ParseInt(srcValue.s) IN
                  IF ~v.ok THEN DecErr(NumError(v.err), dest)
                  ELSE DecOk(IntValue(v.v))
           [] OTHER -> DecOk(TextValue(srcValue.s))

\* stringToValue(dest, srcColumnMeta, srcValue).  dest is the content of
\* the caller's driver.Value before the call; the result holds its content
\* after it.  "dest = nil" on a nil srcValue assigns the parameter, a copy
\* of the caller's pointer, and stores nothing through it.
stringToValue(dest, type, srcValue, zoneOffset) ==
    IF ~srcValue.present THEN DecOk(dest)
    ELSE CASE type = "text" -> DecOk(TextValue(srcValue.s))
           [] type = "date" -> DateBranch(dest, srcValue.s)
           [] type = "time" -> TimeBranch(dest, srcValue.s)
           [] type = "timestamp_ntz" -> TimestampNtzBranch(dest, srcValue.s)
           [] type = "timestamp_ltz" ->
                  TimestampLtzBranch(dest, srcValue.s, zoneOffset)
           [] type = "timestamp_tz" -> TimestampTzBranch(dest, srcValue.s)
           [] OTHER -> DecOk(TextValue(srcValue.s))

(***************************************************************************)
(* Native values bound as parameters (the interface{} given to             *)
(* valueToString and goTypeToSnowflake).  type is the dynamic Go type,     *)
(* "nil" for the nil interface; the other fields hold the payload of the   *)
(* kinds that have one.  A float is num/den.                               *)
(***************************************************************************)
SignedTypes == {"int", "int8", "int16", "int32", "int64"}
UnsignedTypes == {"uint", "uint8", "uint16", "uint32", "uint64"}
FloatTypes == {"float32", "float64"}
SliceTypes == {"[]uint8"}
MapTypes == {"map[int]int"}
StructTypes == {"time.Time", "struct {}"}
OtherTypes == {"uintptr", "complex128", "*int", "[2]int", "chan int", "func()"}

GoValue(type, n, den, s, b, isNil) ==
    [type |-> type, n |-> n, den |-> den, s |-> s, b |-> b, isNil |-> isNil]

\* reflect.Value.Kind()
Kind(v) ==
    CASE v.type \in SignedTypes \cup UnsignedTypes \cup FloatTypes
                    \cup {"bool", "string", "uintptr", "complex128"} -> v.type
      [] v.type \in SliceTypes -> "slice"
      [] v.type \in MapTypes -> "map"
      [] v.type \in StructTypes -> "struct"
      [] v.type = "*int" -> "ptr"
      [] v.type = "[2]int" -> "array"
      [] v.type = "chan int" -> "chan"
      [] v.type = "func()" -> "func"

\* reflect.Type.String() of the slice and map types.
TypeString(type) ==
    IF type = "[]uint8" THEN <<"[", "]", "u", "i", "n", "t", "8">>
    ELSE <<"m", "a", "p", "[", "i", "n", "t", "]", "i", "n", "t">>

\* reflect.Value.String() of a value that is not of kind String.
ValueString(v) == <<"<">> \o TypeString(v.type) \o <<" ", "V", "a", "l", "u", "e", ">">>

\* The digits of the fraction r/den, 0 <= r < den, den a power of two.
RECURSIVE FractionDigits(_, _)
FractionDigits(r, den) ==
    IF r = 0 THEN <<>>
    ELSE <<DigitChars[((r * 10) \div den) + 1]>> \o FractionDigits((r * 10) % den, den)

\* strconv.FormatFloat(num/den, 'g', -1, 32) for the values bound here:
\* multiples of 1/4 below 10^6 in magnitude, whose shortest representation
\* at 32-bit precision is their exact decimal expansion in %f form.
FormatFloat(num, den) ==
    LET a == IF num < 0 THEN -num ELSE num
        frac == FractionDigits(a % den, den)
    IN  (IF num < 0 THEN <<"-">> ELSE <<>>) \o FormatUint(a \div den)
        \o (IF frac = <<>> THEN <<>> ELSE <<".">> \o frac)

(***************************************************************************)
(* goTypeToSnowflake                                                       *)
(***************************************************************************)
goTypeToSnowflake(v) ==
    CASE v.type \in SignedTypes \cup UnsignedTypes -> "FIXED"
      [] v.type = "bool" -> "BOOLEAN"
      [] v.type \in FloatTypes -> "REAL"
      [] v.type = "time.Time" -> "DATE"
      [] v.type = "string" -> "TEXT"
      [] OTHER -> "TEXT"

(***************************************************************************)
(* valueToString                                                           *)
(***************************************************************************)
\* (*string, error) of valueToString
EncOk(s) == [status |-> "ok", str |-> s, err |-> NoError]
EncErr(e) == [status |-> "error", str |-> NoString, err |-> e]
EncPanic(msg) == [status |-> "panic", str |-> NoString, err |-> Panic(msg)]

valueToString(v) ==
    IF v.type = "nil" THEN EncOk(NoString)
    ELSE LET k == Kind(v) IN
         CASE k = "bool" -> EncOk(Some(FormatBool(v.b)))
           [] k \in SignedTypes -> EncOk(Some(FormatInt(v.n)))
           [] k \in UnsignedTypes -> EncOk(Some(FormatUint(v.n)))
           [] k \in FloatTypes -> EncOk(Some(FormatFloat(v.n, v.den)))
           [] k = "string" -> EncOk(Some(v.s))
           [] k \in {"slice", "map", "struct"} ->
                  \* reflect.Value.IsNil panics on a struct Value
                  IF k = "struct"
                  THEN EncPanic("reflect: call of reflect.Value.IsNil on struct Value")
                  ELSE IF v.isNil THEN EncOk(NoString)
                  ELSE EncOk(Some(ValueString(v)))
           [] OTHER -> EncErr(UnexpectedType(k))

(***************************************************************************)
(* Inputs                                                                  *)
(***************************************************************************)
\* Every string over Alphabet of length at most n.
Strings(n) == UNION {[1..k -> Alphabet] : k \in 0..n}

\* Longer payloads: the examples of the documentation, signed and
\* over-long fractions, a number beyond int64.
EpochSamples ==
   {<<"1", "0", "0", "0">>,
    <<"1", "0", "0", "0", ".", "1", "2", "3">>,
    <<"1", "0", "0", "0", ".", "1", "2", "3", "4", "5", "6", "7", "8", "9">>,
    <<"4", "2">>,
    <<"a", "b", "c">>,
    <<"-", "1", ".", "5">>,
    <<"+", "1", ".", "5">>,
    <<"1", ".", "-", "5">>,
    <<"1", ".", "+", "5">>,
    <<"1", ".", "0", "1", "2", "3", "4", "5", "6", "7", "8", "9">>,
    <<"1", "0", "0", "0", ".", "1", "2", "3", "4", "5", "6", "7", "8", "9", "0">>,
    <<"x", ".", "0", "1", "2", "3", "4", "5", "6", "7", "8", "9">>,
    <<"1", ".", "0", "1", "2", "3", "4", "5", "6", "7", "8", "a">>,
    <<"9", "9", "9", "9", "9", "9", "9", "9", "9", "9", "9", "9", "9", "9", "9", "9", "9", "9", "9", "9">>,
    <<"1", ".", "2", ".", "3">>}

TzEpochs ==
   {<<"0">>,
    <<"1", "0", "0", "0", ".", "5">>,
    <<"-", "1", ".", "2", "5">>,
    <<"1", ".", "-", "5">>,
    <<"1", ".", "0", "1", "2", "3", "4", "5", "6", "7", "8", "9">>,
    <<"x">>}

TzOffsets ==
   {<<"1", "4", "4", "0">>,
    <<"1", "3", "8", "0">>,
    <<"1", "5", "0", "0">>,
    <<"0">>,
    <<"-", "6", "0">>,
    <<"+", "1", "4", "4", "0">>,
    <<"x">>,
    <<"1", "4", ".", "4">>}

TzSamples ==
    {e \o <<" ">> \o o : e \in TzEpochs, o \in TzOffsets}
        \cup {<<"1", " ", "2", " ", "3">>, <<"0", " ", " ", "1", "4", "4", "0">>}

WireStrings == Strings(MaxLen) \cup EpochSamples \cup TzSamples

\* The column types of srcColumnMeta.Type: the six the code decodes, and
\* others (lower-case names of the server, upper-case names of
\* goTypeToSnowflake).
DecodedTags ==
    {"text", "date", "time", "timestamp_ntz", "timestamp_ltz", "timestamp_tz"}
Tags ==
    DecodedTags \cup {"fixed", "boolean", "real", "variant", "FIXED", "BOOLEAN",
                      "REAL", "TEXT", "DATE", "TIME", "TIMESTAMP_TZ"}

\* Offsets of the process zone, in seconds.
ZoneOffsets == {-3600, 0, 19800}

\* What the caller's destination may hold before a call.
PriorDests == {NilValue, TextValue(<<"x">>), IntValue(7)}

NoArg == GoValue("nil", 0, 1, <<>>, FALSE, TRUE)

\* Integers of several digits.  Every number that reaches "date" stays
\* below 10^4, so that v * 86400 is computed exactly here as it is in
\* int64 there.
LargeInts == {100, 1000, 9999}

IntArgs ==
    {GoValue(ty, n, 1, <<>>, FALSE, FALSE) : ty \in SignedTypes, n \in (-MaxInt)..MaxInt}
        \cup {GoValue(ty, n, 1, <<>>, FALSE, FALSE) :
                  ty \in {"int", "int64"}, n \in LargeInts \cup {-k : k \in LargeInts}}

UintArgs ==
    {GoValue(ty, n, 1, <<>>, FALSE, FALSE) : ty \in UnsignedTypes, n \in 0..MaxInt}
        \cup {GoValue(ty, n, 1, <<>>, FALSE, FALSE) :
                  ty \in {"uint", "uint64"}, n \in LargeInts}

FloatArgs ==
    {GoValue(ty, n, d, <<>>, FALSE, FALSE) :
         ty \in FloatTypes, n \in -5..5, d \in {1, 2, 4}}

OtherArgs ==
    {NoArg}
        \cup {GoValue("bool", 0, 1, <<>>, b, FALSE) : b \in BOOLEAN}
        \cup {GoValue("string", 0, 1, s, FALSE, FALSE) : s \in Strings(1) \cup EpochSamples}
        \cup {GoValue(ty, 0, 1, <<>>, FALSE, isNil) :
                  ty \in SliceTypes \cup MapTypes, isNil \in BOOLEAN}
        \cup {GoValue(ty, 0, 1, <<>>, FALSE, FALSE) : ty \in StructTypes \cup OtherTypes}
        \cup {GoValue("*int", 0, 1, <<>>, FALSE, TRUE)}

ArgValues == IntArgs \cup UintArgs \cup FloatArgs \cup OtherArgs

(***************************************************************************)
(* The driver around the four functions: a parameter is bound              *)
(* (goTypeToSnowflake, valueToString), a column value is fetched into the  *)
(* caller's destination (stringToValue), a timestamp is decomposed         *)
(* (extractTimestamp).                                                     *)
(***************************************************************************)
VARIABLES
    pc,        \* "idle": before a call; "bound": a parameter was encoded;
               \* "done": the call under observation returned or panicked
    fn,        \* the function called last
    arg,       \* the native value given to valueToString
    bindType,  \* its tag by goTypeToSnowflake
    wire,      \* the optional string encoded, or received from the server
    tag,       \* srcColumnMeta.Type given to stringToValue
    dest,      \* the content of the caller's driver.Value
    prior,     \* its content before the call
    out        \* what the call returned

vars == <<pc, fn, arg, bindType, wire, tag, dest, prior, out>>

NoOut == [status |-> "none"]

Init ==
    /\ pc = "idle"
    /\ fn = "none"
    /\ arg = NoArg
    /\ bindType = "none"
    /\ wire = NoString
    /\ tag = "none"
    /\ dest \in PriorDests
    /\ prior = dest
    /\ out = NoOut

\* A parameter v is bound: its tag is inferred and it is encoded.
Bind(v) ==
    /\ pc = "idle"
    /\ LET r == valueToString(v) IN
       /\ out' = r
       /\ wire' = r.str
       /\ pc' = IF r.status = "ok" THEN "bound" ELSE "done"
    /\ fn' = "valueToString"
    /\ arg' = v
    /\ bindType' = goTypeToSnowflake(v)
    /\ UNCHANGED <<tag, dest, prior>>

\* stringToValue(&dest, type, src) with the process zone at offset z.
Decode(type, src, z) ==
    LET r == stringToValue(dest, type, src, z) IN
    /\ fn' = "stringToValue"
    /\ tag' = type
    /\ wire' = src
    /\ prior' = dest
    /\ dest' = r.dest
    /\ out' = r
    /\ pc' = "done"

ZonesFor(type) == IF type = "timestamp_ltz" THEN ZoneOffsets ELSE {0}

\* The encoded parameter comes back as a column of some type.
FetchBound ==
    /\ pc = "bound"
    /\ \E type \in Tags : \E z \in ZonesFor(type) : Decode(type, wire, z)
    /\ UNCHANGED <<arg, bindType>>

\* A column value arrives from the server: absent (SQL NULL) or a string.
Fetch ==
    /\ pc = "idle"
    /\ \E type \in Tags : \E z \in ZonesFor(type) :
           \E src \in {NoString} \cup {Some(s) : s \in WireStrings} :
               Decode(type, src, z)
    /\ arg' = NoArg
    /\ bindType' = "none"

\* extractTimestamp(&s)
ExtractTimestamp ==
    /\ pc = "idle"
    /\ \E s \in WireStrings :
           /\ wire' = Some(s)
           /\ out' = extractTimestamp(s)
    /\ fn' = "extractTimestamp"
    /\ pc' = "done"
    /\ arg' = NoArg
    /\ bindType' = "none"
    /\ UNCHANGED <<tag, dest, prior>>

\* The caller goes on to the next value, with a destination of its own.
NextValue ==
    /\ pc = "done"
    /\ pc' = "idle"
    /\ fn' = "none"
    /\ arg' = NoArg
    /\ bindType' = "none"
    /\ wire' = NoString
    /\ tag' = "none"
    /\ dest' \in PriorDests
    /\ prior' = dest'
    /\ out' = NoOut

Next ==
    \/ \E v \in ArgValues : Bind(v)
    \/ FetchBound
    \/ Fetch
    \/ ExtractTimestamp
    \/ NextValue

Spec == Init /\ [][Next]_vars

(***************************************************************************)
(* Properties                                                              *)
(***************************************************************************)
Decoded == pc = "done" /\ fn = "stringToValue"

Decomposed == pc = "done" /\ fn = "extractTimestamp"

Encoded == pc \in {"bound", "done"} /\ fn = "valueToString"

\* Position (1-based) of the first c in s, 0 when there is none.
FirstIndex(s, c) ==
    IF \E i \in 1..Len(s) : s[i] = c
    THEN CHOOSE i \in 1..Len(s) : s[i] = c /\ \A j \in 1..(i - 1) : s[j] # c
    ELSE 0

BeforeFirst(s, c) == SubSeq(s, 1, FirstIndex(s, c) - 1)

AfterFirst(s, c) == SubSeq(s, FirstIndex(s, c) + 1, Len(s))

Count(s, c) == Cardinality({i \in 1..Len(s) : s[i] = c})

AllDigits(s) == \A i \in 1..Len(s) : IsDigit(s[i])

\* An optional sign and 1 to 18 digits: a base-10 integer within int64.
IsInteger(s) ==
    LET body == IF Len(s) > 0 /\ s[1] \in {"+", "-"} THEN Tail(s) ELSE s
    IN  Len(body) \in 1..18 /\ AllDigits(body)

\* s is the decimal representation of n that has no sign for n >= 0 and no
\* leading zero.
Denotes(s, n) ==
    LET body == IF n < 0 THEN Tail(s) ELSE s IN
    /\ Len(s) > 0
    /\ n < 0 => s[1] = "-"
    /\ Len(body) > 0 /\ AllDigits(body)
    /\ Len(body) > 1 => body[1] # "0"
    /\ DecValue(body) = (IF n < 0 THEN -n ELSE n)

\* s right-padded with '0' to NanoDigits characters.
PadRight(s) == s \o [i \in 1..(NanoDigits - Len(s)) |-> "0"]

\* C1: for every tag and every prior content of the destination, decoding
\* an absent field returns no error and the caller finds null in the
\* destination.
C1_AbsentFieldYieldsNull ==
    (Decoded /\ ~wire.present) => (out.status = "ok" /\ dest = NilValue)

\* C2: decoding, under the FIXED tag, the string that valueToString gives
\* for an integer n yields the integer n itself, not a value of another
\* kind.
C2_IntegerRoundTrip ==
    (Decoded /\ arg.type \in SignedTypes \cup UnsignedTypes /\ tag \in {"FIXED", "fixed"})
        => (out.status = "ok" /\ dest = IntValue(arg.n))

\* C2, amended: that decoding yields no integer but the text value holding
\* the base-10 representation of n, sign included.
C2_IntegerRoundTripIsText ==
    (Decoded /\ arg.type \in SignedTypes \cup UnsignedTypes /\ tag \in {"FIXED", "fixed"})
        => /\ out.status = "ok"
           /\ dest.kind = "string"
           /\ Denotes(dest.s, arg.n)

C2_Witness ==
    /\ Decoded
    /\ arg.type = "int64" /\ arg.n = -12
    /\ tag = "FIXED"
    /\ dest = TextValue(<<"-", "1", "2">>)

\* What C3 says extractTimestamp returns on s.
DecomposeEpochSays(s) ==
    IF FirstIndex(s, ".") = 0
    THEN LET sec == ParseInt(s) IN
         IF sec.ok THEN TsOk(sec.v, 0) ELSE TsErr(NumError(sec.err))
    ELSE LET sec == ParseInt(BeforeFirst(s, "."))
             nsec == ParseInt(PadRight(AfterFirst(s, ".")))
         IN  IF ~sec.ok THEN TsErr(NumError(sec.err))
             ELSE IF ~nsec.ok THEN TsErr(NumError(nsec.err))
             ELSE TsOk(sec.v, nsec.v)

\* C3: without a '.', extractTimestamp returns (the string parsed, 0); with
\* one, (the part before the first '.' parsed, the part after it
\* right-padded with '0' to 9 digits and parsed); it returns a parse error
\* if a segment is no base-10 integer.
C3_DecomposeEpoch ==
    Decomposed => out = DecomposeEpochSays(wire.s)

\* C4: on a fraction of more than 9 digits extractTimestamp completes
\* normally and returns the whole fraction, parsed as it is, as the
\* nanoseconds.
C4_LongFractionParsedAsIs ==
    (/\ Decomposed
     /\ FirstIndex(wire.s, ".") # 0
     /\ IsInteger(BeforeFirst(wire.s, "."))
     /\ Len(AfterFirst(wire.s, ".")) > NanoDigits
     /\ AllDigits(AfterFirst(wire.s, ".")))
        => /\ out.status = "ok"
           /\ out.nsec = DecValue(AfterFirst(wire.s, "."))

IsInvalidTimestampTz(e, raw) ==
    /\ e.kind = "SnowflakeError"
    /\ e.Number = "ErrInvalidTimestampTz"
    /\ Len(e.Message) >= Len(raw)
    /\ SubSeq(e.Message, Len(e.Message) - Len(raw) + 1, Len(e.Message)) = raw

\* C5: decoding under timestamp_tz fails with InvalidTimestampTz, whose
\* message carries the raw string, whenever the raw string does not split
\* on single spaces into exactly two fields or the second field is no
\* base-10 integer; the destination gets no value.
C5_InvalidTimestampTz ==
    (/\ Decoded /\ tag = "timestamp_tz" /\ wire.present
     /\ \/ Count(wire.s, " ") # 1
        \/ ~ParseInt(AfterFirst(wire.s, " ")).ok)
        => /\ out.status = "error"
           /\ IsInvalidTimestampTz(out.err, wire.s)
           /\ dest = prior

\* C5, amended: the failure is InvalidTimestampTz when the raw string does
\* not split into exactly two fields, or when extractTimestamp accepts the
\* first field and the second is no base-10 integer; when there are two
\* fields and extractTimestamp rejects the first, the failure is its parse
\* error, whatever the second field is.  The destination gets no value.
C5_InvalidTimestampTzAfterEpoch ==
    (Decoded /\ tag = "timestamp_tz" /\ wire.present)
        => LET s == wire.s
               first == extractTimestamp(BeforeFirst(s, " "))
           IN  /\ Count(s, " ") # 1
                      => /\ out.status = "error"
                         /\ IsInvalidTimestampTz(out.err, s)
                         /\ dest = prior
               /\ (/\ Count(s, " ") = 1
                   /\ first.status = "ok"
                   /\ ~ParseInt(AfterFirst(s, " ")).ok)
                      => /\ out.status = "error"
                         /\ IsInvalidTimestampTz(out.err, s)
                         /\ dest = prior
               /\ (Count(s, " ") = 1 /\ first.status = "error")
                      => /\ out.status = "error"
                         /\ out.err = first.err
                         /\ out.err.kind = "NumError"
                         /\ dest = prior

C5_Witness ==
    /\ Decoded /\ tag = "timestamp_tz"
    /\ wire = Some(<<"1", " ", "a">>)
    /\ prior = IntValue(7) /\ dest = prior
    /\ out.err.kind = "SnowflakeError"

\* "sec" or "sec.frac" with a fraction of at most 9 digits.
WellFormedEpoch(e) ==
    IF FirstIndex(e, ".") = 0 THEN IsInteger(e)
    ELSE /\ IsInteger(BeforeFirst(e, "."))
         /\ Len(AfterFirst(e, ".")) <= NanoDigits
         /\ AllDigits(AfterFirst(e, "."))

\* C6: a payload "<epoch> <stored>" decodes under timestamp_tz to the
\* instant whose seconds and nanoseconds are those extractTimestamp gives
\* for <epoch>, in the fixed zone of stored - 1440 minutes; the zone does
\* not move the instant.
C6_TimestampTz ==
    (/\ Decoded /\ tag = "timestamp_tz" /\ wire.present
     /\ Count(wire.s, " ") = 1
     /\ WellFormedEpoch(BeforeFirst(wire.s, " "))
     /\ IsInteger(AfterFirst(wire.s, " ")))
        => LET ts == extractTimestamp(BeforeFirst(wire.s, " "))
               stored == ParseInt(AfterFirst(wire.s, " ")).v
           IN  /\ out.status = "ok"
               /\ ts.status = "ok"
               /\ dest.kind = "time" /\ dest.ref = "unix"
               /\ dest.sec = ts.sec /\ dest.nsec = ts.nsec
               /\ dest.loc.name = "fixed"
               /\ dest.loc.offset = (stored - 1440) * 60

C6_Witness ==
    /\ Decoded /\ tag = "timestamp_tz"
    /\ wire = Some(<<"1", "0", "0", "0", ".", "5", " ", "1", "3", "8", "0">>)
    /\ dest = TimeValue("unix", 1000, 500000000, [name |-> "fixed", offset |-> -3600])

SupportedKinds ==
    {"bool", "string", "slice", "map", "struct"}
        \cup SignedTypes \cup UnsignedTypes \cup FloatTypes

\* C7: valueToString ends in one of three ways for every value: no string,
\* a string, or the error that carries the kind; the error is returned
\* exactly for the kinds without an encoding, and a struct value (a
\* time.Time among them) is encoded to a string.
C7_EncodeTotal ==
    Encoded
        => /\ out.status \in {"ok", "error"}
           /\ arg.type # "nil"
                  => /\ out.status = "error" <=> Kind(arg) \notin SupportedKinds
                     /\ out.status = "error" => out.err = UnexpectedType(Kind(arg))
                     /\ Kind(arg) = "struct" => (out.status = "ok" /\ out.str.present)

\* C8: a present string decoded under a tag that is none of text, date,
\* time, timestamp_ntz, timestamp_ltz, timestamp_tz comes back as the text
\* value of the same string, without error.
C8_UnrecognizedTagPassesThrough ==
    (/\ Decoded /\ wire.present
     /\ tag \notin {"text", "date", "time", "timestamp_ntz", "timestamp_ltz",
                    "timestamp_tz"})
        => /\ out.status = "ok"
           /\ out.err = NoError
           /\ dest = TextValue(wire.s)

C8_Witness ==
    /\ Decoded /\ tag = "fixed"
    /\ wire = Some(<<"4", "2">>)
    /\ prior = NilValue
    /\ dest = TextValue(<<"4", "2">>)

\* C9: the time branch of stringToValue ends as extractTimestamp ends on
\* the same string, and when that is without error the value decoded is
\* the zero Time plus sec * 10^9 + nsec nanoseconds.
C9_TimeBranchIsExtractTimestamp ==
    (Decoded /\ tag = "time" /\ wire.present)
        => LET ts == extractTimestamp(wire.s) IN
           /\ out.status = ts.status
           /\ ts.status = "error" => out.err = ts.err
           /\ ts.status = "ok"
                  => /\ dest.kind = "time" /\ dest.ref = "zero"
                     /\ dest.sec = ts.sec + (ts.nsec \div 1000000000)
                     /\ dest.nsec = ts.nsec % 1000000000

C9_Witness ==
    /\ Decoded /\ tag = "time"
    /\ wire = Some(<<"1", "0", "0", "0", ".", "1", "2", "3">>)
    /\ dest = TimeValue("zero", 1000, 123000000, UTC)

ShortFraction(s) ==
    FirstIndex(s, ".") = 0 \/ Len(AfterFirst(s, ".")) <= NanoDigits

\* C10: when extractTimestamp succeeds on a string without '.' or with at
\* most 9 characters after the first '.', the nanoseconds are in
\* 0..999999999.
C10_NanosNormalized ==
    (Decomposed /\ out.status = "ok" /\ ShortFraction(wire.s))
        => out.nsec \in 0..999999999

\* C10, amended: the nanoseconds are in -99999999..999999999, and below
\* zero only when the part after the '.' starts with '-'.
C10_NanosBounded ==
    (Decomposed /\ out.status = "ok" /\ ShortFraction(wire.s))
        => /\ out.nsec \in -99999999..999999999
           /\ out.nsec < 0 => AfterFirst(wire.s, ".")[1] = "-"

C10_Witness ==
    /\ Decomposed
    /\ wire = Some(<<"1", ".", "-", "5">>)
    /\ out = TsOk(1, -50000000)

====
